---- MODULE Spec2Model ----
(***************************************************************************)
(* GROVER fine-tuning tutorial (GROVER_Tutorial.ipynb).                    *)
(*                                                                         *)
(* The notebook is a sequence of cells run top to bottom.  The model keeps *)
(* the notebook's globals as variables and has one action per cell (or per *)
(* loop iteration of a cell).  Six specifications cover its parts:         *)
(*   SpecPrep    annotation table -> class column -> filter/sort -> window *)
(*   SpecMapper  create_mapper on one tokenized chromosome                 *)
(*   SpecTok     the per-chromosome nucleotide -> token slicing loop       *)
(*   SpecSplit   the train / validation / test split                       *)
(*   SpecTrain   the fine-tuning loop and the test cell                    *)
(*   SpecLoops   one call of train_loop, val_loop or test_loop             *)
(*                                                                         *)
(* Strings that the code slices (chromosome names, file names) are         *)
(* sequences of one-character strings.  A token is represented by its      *)
(* length in nucleotides, the only thing the code reads from it.           *)
(***************************************************************************)
EXTENDS Integers, Sequences, FiniteSets, TLC

VARIABLES
    pc,                 \* the cell (or loop position) that runs next
    annotations,        \* the table read from the .tsv file
    data,               \* the working table chr / start / end / class
    tokenized_chromosomes, \* directory: file name -> token list
    tokenized_chr,      \* token list of the chromosome loaded last
    mapper,             \* mapper created last
    tokenized_seqs,     \* token sequences appended so far
    opened,             \* names of the token files opened so far
    todo,               \* chromosomes the slicing loop has still to visit
    grover_dataset,     \* the tokenized dataset: rows idx / X / class
    train_data, val_data, test_data,
    best_val_loss, val_loss, epoch,
    weights,            \* number of train_loop passes applied to the model
    GROVER_finetuned,   \* checkpoint directory: None or the weights saved
    losses,             \* validation losses printed so far
    loaded,             \* model loaded by the test cell
    fn,                 \* the loop function being run
    batches,            \* the loader: number of samples of each batch
    batch_idx,          \* index of the batch the loop is at
    mode,               \* model.train() / model.eval()
    grad,               \* gradients held by the parameters
    optimizer,          \* number of optimizer steps taken
    logits,             \* output of the forward pass of train_loop
    loss,               \* loss of the current batch in train_loop
    acc_loss,           \* val_loss accumulated inside val_loop
    sigmoid,            \* torch.sigmoid(logits) of the batch handled last
    preds,              \* predictions collected by val_loop / test_loop
    returned            \* value returned by the loop function

prepVars  == <<annotations, data>>
tokVars   == <<tokenized_chromosomes, tokenized_chr, mapper, tokenized_seqs,
               opened, todo>>
splitVars == <<grover_dataset, train_data, val_data, test_data>>
trainVars == <<best_val_loss, val_loss, epoch, weights, GROVER_finetuned,
               losses, loaded>>
loopVars  == <<fn, batches, batch_idx, mode, grad, optimizer, logits, loss,
               acc_loss, sigmoid, preds, returned>>
vars == <<pc, prepVars, tokVars, splitVars, trainVars, loopVars>>

\* "no value yet" / "no such directory", distinct from every loss and weight.
None == -1

\* Values of the variables a specification does not use.
PrepIdle  == annotations = <<>> /\ data = <<>>
TokIdle   == /\ tokenized_chromosomes = <<>> /\ tokenized_chr = <<>>
             /\ mapper = <<>> /\ tokenized_seqs = <<>>
             /\ opened = <<>> /\ todo = <<>>
SplitIdle == /\ grover_dataset = <<>> /\ train_data = <<>>
             /\ val_data = <<>> /\ test_data = <<>>
TrainIdle == /\ best_val_loss = None /\ val_loss = None /\ epoch = None
             /\ weights = 0 /\ GROVER_finetuned = None /\ losses = <<>>
             /\ loaded = None
LoopIdle  == /\ fn = None /\ batches = <<>> /\ batch_idx = None
             /\ mode = None /\ grad = <<>> /\ optimizer = 0
             /\ logits = <<>> /\ loss = <<>> /\ acc_loss = None
             /\ sigmoid = <<>> /\ preds = <<>> /\ returned = <<>>

(***************************************************************************)
(* Generic helpers.                                                        *)
(***************************************************************************)

\* All sequences over S of length at most n.
SeqsUpTo(S, n) == UNION {[1..k -> S] : k \in 0..n}

Range(s) == {s[i] : i \in DOMAIN s}

\* Code point order of the characters that occur in chromosome names.
CodePoint(c) ==
    CASE c = "0" -> 48 [] c = "1" -> 49 [] c = "2" -> 50 [] c = "3" -> 51
      [] c = "4" -> 52 [] c = "5" -> 53 [] c = "6" -> 54 [] c = "7" -> 55
      [] c = "8" -> 56 [] c = "9" -> 57 [] c = "M" -> 77 [] c = "X" -> 88
      [] c = "Y" -> 89 [] c = "_" -> 95 [] c = "c" -> 99 [] c = "g" -> 103
      [] c = "h" -> 104 [] c = "l" -> 108 [] c = "r" -> 114

\* Python's str <= str: lexicographic by code point, a prefix sorts first.
RECURSIVE StrLeq(_, _)
StrLeq(a, b) ==
    IF a = <<>> THEN TRUE
    ELSE IF b = <<>> THEN FALSE
    ELSE IF Head(a) = Head(b) THEN StrLeq(Tail(a), Tail(b))
    ELSE CodePoint(Head(a)) < CodePoint(Head(b))

(***************************************************************************)
(* Part 1: preparing the annotation table (cells at lines 187 - 333).     *)
(***************************************************************************)

MaxAnnotRows == 2

chr1   == <<"c", "h", "r", "1">>
chr2   == <<"c", "h", "r", "2">>
chr10  == <<"c", "h", "r", "1", "0">>
chr22  == <<"c", "h", "r", "2", "2">>
chrX   == <<"c", "h", "r", "X">>
chrY   == <<"c", "h", "r", "Y">>
chrM   == <<"c", "h", "r", "M">>
chr1_gl == <<"c", "h", "r", "1", "_", "g", "l">> \o <<"0", "0", "0", "1", "9", "1">>

\* Inputs of the annotation file: column 0, column 3, motif length
\* (column 4 - column 3) and column 9.
PrepChrNames  == {chr2, chr10, chr1_gl}
MotifStarts   == {10, 600}
MotifLens     == {0, 3, 4}
PeakValues    == {<<".">>, chr1}

AnnotRows ==
    {[c0 |-> c, c3 |-> s, c4 |-> s + l, c9 |-> p] :
        c \in PrepChrNames, s \in MotifStarts, l \in MotifLens, p \in PeakValues}

\* annotations[9].apply(lambda x: 1 if x != "." else 0)
ClassOfBadColumn(row) == IF row.c0 # <<".">> THEN 1 ELSE 0
ClassOf(row) == IF row.c9 # <<".">> THEN 1 ELSE 0

\* annotations[[0, 3, 4, "class"]] with the columns renamed.
\* idx is the row label (read_csv numbers the rows 0, 1, 2, ...).
SelectColumns(row, idx) ==
    [idx |-> idx, chr |-> row.c0, start |-> row.c3, end |-> row.c4,
     class |-> row.class]

\* lambda x: True if len(x) <= 5 else False
KeepChr(x) == Len(x) <= 5

\* sort_values(by=["chr"]): the rows ordered by chromosome name.
SortedByChr(t) == \A i, j \in DOMAIN t : i < j => StrLeq(t[i].chr, t[j].chr)

\* The orderings sort_values may return (the default sort is not stable).
IsPermutationOf(t, u) ==
    /\ Len(t) = Len(u)
    /\ \E f \in [DOMAIN t -> DOMAIN u] :
          /\ \A i, j \in DOMAIN t : i # j => f[i] # f[j]
          /\ \A i \in DOMAIN t : t[i] = u[f[i]]

FLANK == 500

\* center_of_motif and the two assignments to data["start"], data["end"].
CenterOfMotif(row) == row.start + ((row.end - row.start) \div 2)

ExpandFromNewStart(row) ==
    LET new_start == CenterOfMotif(row) - FLANK
    IN  [row EXCEPT !.start = new_start,
                    !.end = CenterOfMotif([row EXCEPT !.start = new_start]) + FLANK]
Expand(row) ==
    LET center_of_motif == CenterOfMotif(row)
    IN  [row EXCEPT !.start = center_of_motif - FLANK,
                    !.end = center_of_motif + FLANK]

PrepInit ==
    /\ pc = "add_class"
    /\ annotations \in SeqsUpTo(AnnotRows, MaxAnnotRows)
    /\ data = <<>>
    /\ TokIdle /\ SplitIdle /\ TrainIdle /\ LoopIdle

\* Cell at line 210: the class column.
AddClass ==
    /\ pc = "add_class"
    /\ annotations' = [i \in DOMAIN annotations |->
           [c0 |-> annotations[i].c0, c3 |-> annotations[i].c3,
            c4 |-> annotations[i].c4, c9 |-> annotations[i].c9,
            class |-> ClassOf(annotations[i])]]
    /\ pc' = "select"
    /\ UNCHANGED <<data, tokVars, splitVars, trainVars, loopVars>>

\* Cells at lines 231 and 252: keep and rename four columns.
Select ==
    /\ pc = "select"
    /\ data' = [i \in DOMAIN annotations |-> SelectColumns(annotations[i], i - 1)]
    /\ pc' = "filter"
    /\ UNCHANGED <<annotations, tokVars, splitVars, trainVars, loopVars>>

\* Cell at lines 273 - 277: drop the scaffolds, sort by chromosome.
FilterSort ==
    /\ pc = "filter"
    /\ LET kept == SelectSeq(data, LAMBDA r : KeepChr(r.chr))
       IN  \E t \in SeqsUpTo(Range(kept), Len(kept)) :
              /\ IsPermutationOf(t, kept)
              /\ SortedByChr(t)
              /\ data' = t
    /\ pc' = "expand"
    /\ UNCHANGED <<annotations, tokVars, splitVars, trainVars, loopVars>>

\* Cell at lines 329 - 334: the window of 500 nucleotides around the center.
ExpandWindow ==
    /\ pc = "expand"
    /\ data' = [i \in DOMAIN data |-> Expand(data[i])]
    /\ pc' = "prepared"
    /\ UNCHANGED <<annotations, tokVars, splitVars, trainVars, loopVars>>

PrepNext == AddClass \/ Select \/ FilterSort \/ ExpandWindow

SpecPrep == PrepInit /\ [][PrepNext]_vars

(***************************************************************************)
(* Part 2: create_mapper (cell at lines 408 - 413).                        *)
(***************************************************************************)

MaxMapperTokens == 3
MapperTokenLens == {0, 1, 2, 3, 5}

\* len(token)
TokenLen(token) == token

\* The outer loop of create_mapper from token index i on; the inner loop
\* appends i once per nucleotide of token i.  Token index i is Python's
\* (counted from 0) and is element i + 1 of the sequence.
RECURSIVE MapperLoop(_, _, _)
MapperOncePerToken(toks, i, m) ==
    IF i >= Len(toks) THEN m
    ELSE MapperLoop(toks, i + 1, m \o <<i>>)
MapperOffByOne(toks, i, m) ==
    IF i >= Len(toks) THEN m
    ELSE MapperLoop(toks, i + 1, m \o [e \in 1..TokenLen(toks[i + 1]) |-> i + 1])
MapperLoop(toks, i, m) ==
    IF i >= Len(toks) THEN m
    ELSE MapperLoop(toks, i + 1, m \o [e \in 1..TokenLen(toks[i + 1]) |-> i])

create_mapper(toks) == MapperLoop(toks, 0, <<>>)

MapperInit ==
    /\ pc = "create_mapper"
    /\ tokenized_chr \in SeqsUpTo(MapperTokenLens, MaxMapperTokens)
    /\ mapper = <<>>
    /\ tokenized_chromosomes = <<>> /\ tokenized_seqs = <<>>
    /\ opened = <<>> /\ todo = <<>>
    /\ PrepIdle /\ SplitIdle /\ TrainIdle /\ LoopIdle

CallCreateMapper ==
    /\ pc = "create_mapper"
    /\ mapper' = create_mapper(tokenized_chr)
    /\ pc' = "mapper_done"
    /\ UNCHANGED <<tokenized_chromosomes, tokenized_chr, tokenized_seqs,
                   opened, todo, prepVars, splitVars, trainVars, loopVars>>

MapperNext == CallCreateMapper

SpecMapper == MapperInit /\ [][MapperNext]_vars

(***************************************************************************)
(* Part 3: the slicing loop (cell at lines 434 - 457).                     *)
(***************************************************************************)

MaxMotifs   == 2
MaxTokens   == 3
TokenLens   == {0, 100, 1000}
TokChrNames == {c \in {chr1, chr22, chrX, chrY, chrM, chr1_gl} : KeepChr(c)}
Centers     == {499, 600}
Classes     == {0, 1}

Digits == <<"0", "1", "2", "3", "4", "5", "6", "7", "8", "9">>

\* str(n) for n >= 0, as the f-string formats an int.
RECURSIVE DecimalStr(_)
DecimalStr(n) ==
    IF n < 10 THEN <<Digits[n + 1]>>
    ELSE DecimalStr(n \div 10) \o <<Digits[(n % 10) + 1]>>

\* chrom[3:] with X and Y replaced by 23 and 24, as formatted into the
\* file name.
ChromNr(chrom) ==
    LET chrom_nr == SubSeq(chrom, 4, Len(chrom))
    IN  IF chrom_nr = <<"X">> THEN DecimalStr(23)
        ELSE IF chrom_nr = <<"Y">> THEN DecimalStr(24)
        ELSE chrom_nr

\* f"tokenized_chromosomes/chr_{chrom_nr}.pkl" (inside the directory)
FileName(nr) == <<"c", "h", "r", "_">> \o nr \o <<".", "p", "k", "l">>

\* The 24 files of the unpacked archive (markdown at line 388).
NrOfChromosomeFiles == 24
ChromosomeFiles == {FileName(DecimalStr(n)) : n \in 1..NrOfChromosomeFiles}

\* data["chr"].unique(): the names in order of first appearance.
RECURSIVE Unique(_, _)
UniqueNewestFirst(names, seen) ==
    IF names = <<>> THEN seen
    ELSE Unique(Tail(names),
                IF Head(names) \in Range(seen) THEN seen
                ELSE <<Head(names)>> \o seen)
Unique(names, seen) ==
    IF names = <<>> THEN seen
    ELSE Unique(Tail(names),
                IF Head(names) \in Range(seen) THEN seen
                ELSE Append(seen, Head(names)))

ChrColumn(t) == [i \in DOMAIN t |-> t[i].chr]

\* data.loc[data["chr"] == chrom]
RowsOf(t, chrom) == SelectSeq(t, LAMBDA r : r.chr = chrom)

\* list[x] of Python: a negative x counts from the end, anything outside
\* -len .. len - 1 raises IndexError.
IndexOK(list, x) == -Len(list) <= x /\ x < Len(list)
GetItem(list, x) == IF x >= 0 THEN list[x + 1] ELSE list[Len(list) + x + 1]

Min(a, b) == IF a <= b THEN a ELSE b

\* list[start:end] of Python for start, end >= 0.
SliceInclusive(list, start, end) ==
    SubSeq(list, Min(start, Len(list)) + 1, Min(end + 1, Len(list)))
Slice(list, start, end) ==
    SubSeq(list, Min(start, Len(list)) + 1, Min(end, Len(list)))

\* The tables the preparation cells can hand to the loop: scaffolds
\* removed, sorted by chromosome, every window expanded around its center.
TokRows ==
    {Expand([idx |-> 0, chr |-> c, start |-> m, end |-> m, class |-> k]) :
        c \in TokChrNames, m \in Centers, k \in Classes}

TokTables ==
    {[i \in DOMAIN t |-> [t[i] EXCEPT !.idx = i - 1]] :
        t \in {u \in SeqsUpTo(TokRows, MaxMotifs) : SortedByChr(u)}}

Rotate(list) == IF list = <<>> THEN list ELSE Tail(list) \o <<Head(list)>>

\* The unpacked directories of the model: odd file numbers hold one token
\* list, even file numbers the same list rotated by one token.
Directories ==
    {[f \in ChromosomeFiles |->
        IF \E n \in 1..NrOfChromosomeFiles :
              f = FileName(DecimalStr(n)) /\ n % 2 = 1
        THEN T ELSE Rotate(T)] : T \in SeqsUpTo(TokenLens, MaxTokens)}

TokInit ==
    /\ pc = "tok_loop"
    /\ data \in TokTables
    /\ annotations = <<>>
    /\ tokenized_chromosomes \in Directories
    /\ tokenized_chr = <<>> /\ mapper = <<>>
    /\ tokenized_seqs = <<>>
    /\ opened = <<>>
    /\ todo = Unique(ChrColumn(data), <<>>)
    /\ SplitIdle /\ TrainIdle /\ LoopIdle

\* open() of one loop iteration fails: the file does not exist.
TokOpenFails ==
    /\ pc = "tok_loop" /\ todo # <<>>
    /\ LET file == FileName(ChromNr(Head(todo)))
       IN  /\ file \notin DOMAIN tokenized_chromosomes
           /\ opened' = Append(opened, file)
    /\ pc' = "FileNotFoundError"
    /\ UNCHANGED <<tokenized_chromosomes, tokenized_chr, mapper,
                   tokenized_seqs, todo, prepVars, splitVars, trainVars, loopVars>>

\* One loop iteration in which a mapper[x] lookup raises.
TokLookupFails ==
    /\ pc = "tok_loop" /\ todo # <<>>
    /\ LET chrom == Head(todo)
           file  == FileName(ChromNr(chrom))
       IN  /\ file \in DOMAIN tokenized_chromosomes
           /\ opened' = Append(opened, file)
           /\ tokenized_chr' = tokenized_chromosomes[file]
           /\ mapper' = create_mapper(tokenized_chromosomes[file])
           /\ \E i \in DOMAIN RowsOf(data, chrom) :
                 \/ ~IndexOK(mapper', RowsOf(data, chrom)[i].start)
                 \/ ~IndexOK(mapper', RowsOf(data, chrom)[i].end)
    /\ pc' = "IndexError"
    /\ UNCHANGED <<tokenized_chromosomes, tokenized_seqs, todo,
                   prepVars, splitVars, trainVars, loopVars>>

\* One loop iteration that runs to its end.
TokChrom ==
    /\ pc = "tok_loop" /\ todo # <<>>
    /\ LET chrom == Head(todo)
           file  == FileName(ChromNr(chrom))
           rows  == RowsOf(data, chrom)
       IN  /\ file \in DOMAIN tokenized_chromosomes
           /\ opened' = Append(opened, file)
           /\ tokenized_chr' = tokenized_chromosomes[file]
           /\ mapper' = create_mapper(tokenized_chromosomes[file])
           /\ \A i \in DOMAIN rows :
                 IndexOK(mapper', rows[i].start) /\ IndexOK(mapper', rows[i].end)
           /\ LET tokenized_starts ==
                      [i \in DOMAIN rows |-> GetItem(mapper', rows[i].start)]
                  tokenized_ends ==
                      [i \in DOMAIN rows |-> GetItem(mapper', rows[i].end)]
              IN  tokenized_seqs' = tokenized_seqs \o
                      [i \in DOMAIN rows |->
                          Slice(tokenized_chr', tokenized_starts[i],
                                tokenized_ends[i])]
    /\ todo' = Tail(todo)
    /\ pc' = "tok_loop"
    /\ UNCHANGED <<tokenized_chromosomes, prepVars, splitVars, trainVars, loopVars>>

\* After the loop: pd.DataFrame({'X': tokenized_seqs, 'class': data["class"]}).
MakeDataset ==
    /\ pc = "tok_loop" /\ todo = <<>>
    /\ grover_dataset' = [i \in DOMAIN data |->
           [idx |-> data[i].idx, X |-> tokenized_seqs[i],
            class |-> data[i].class]]
    /\ pc' = "tokenized"
    /\ UNCHANGED <<prepVars, tokVars, train_data, val_data, test_data,
                   trainVars, loopVars>>

TokNext == TokOpenFails \/ TokLookupFails \/ TokChrom \/ MakeDataset

SpecTok == TokInit /\ [][TokNext]_vars

(***************************************************************************)
(* Part 4: train / validation / test split (cell at lines 497 - 505).      *)
(***************************************************************************)

MaxSamples == 8

\* Row labels the dataset can carry: the labels of read_csv after rows
\* were filtered out and reordered by the sort.
LabelOrders(n) ==
    { [i \in 1..n |-> i - 1], [i \in 1..n |-> n - i], [i \in 1..n |-> 2 * i] }

Datasets ==
    UNION { { [i \in 1..n |-> [idx |-> L[i], X |-> <<>>, class |-> C[i]]] :
                 L \in LabelOrders(n), C \in [1..n -> Classes] } :
            n \in 0..MaxSamples }

\* round(p / q) of Python for p >= 0, q > 0: a tie goes to the even integer.
RoundDown(p, q) == p \div q
Round(p, q) ==
    LET fl == p \div q
        r2 == 2 * (p % q)
    IN  IF r2 < q THEN fl
        ELSE IF r2 > q THEN fl + 1
        ELSE IF fl % 2 = 0 THEN fl ELSE fl + 1

Labels(df) == {df[i].idx : i \in DOMAIN df}

\* The rows of df at the positions P, in the order of df.
RECURSIVE Take(_, _, _)
Take(df, P, i) ==
    IF i > Len(df) THEN <<>>
    ELSE (IF i \in P THEN <<df[i]>> ELSE <<>>) \o Take(df, P, i + 1)

\* df.sample(frac=num/den, random_state=42): round(frac * len(df)) rows
\* drawn without replacement.  The generator's draw is any set of
\* positions of that size; the order of the drawn rows is not modelled.
Sample(df, num, den) ==
    { Take(df, P, 1) :
        P \in { Q \in SUBSET DOMAIN df :
                  Cardinality(Q) = Round(num * Len(df), den) } }

\* df.drop(labels): the rows whose label is not among labels.
DropByPosition(df, labels) ==
    Take(df, {i \in DOMAIN df : (i - 1) \notin labels}, 1)
Drop(df, labels) == SelectSeq(df, LAMBDA r : r.idx \notin labels)

SplitInit ==
    /\ pc = "sample_train"
    /\ grover_dataset \in Datasets
    /\ train_data = <<>> /\ val_data = <<>> /\ test_data = <<>>
    /\ PrepIdle /\ TokIdle /\ TrainIdle /\ LoopIdle

\* Line 497
SampleTrain ==
    /\ pc = "sample_train"
    /\ train_data' \in Sample(grover_dataset, 8, 10)
    /\ pc' = "drop_train"
    /\ UNCHANGED <<grover_dataset, val_data, test_data, prepVars, tokVars,
                   trainVars, loopVars>>

\* Line 498
DropTrain ==
    /\ pc = "drop_train"
    /\ test_data' = Drop(grover_dataset, Labels(train_data))
    /\ pc' = "sample_val"
    /\ UNCHANGED <<grover_dataset, train_data, val_data, prepVars, tokVars,
                   trainVars, loopVars>>

\* Line 499
SampleVal ==
    /\ pc = "sample_val"
    /\ val_data' \in Sample(test_data, 5, 10)
    /\ pc' = "drop_val"
    /\ UNCHANGED <<grover_dataset, train_data, test_data, prepVars, tokVars,
                   trainVars, loopVars>>

\* Line 500
DropVal ==
    /\ pc = "drop_val"
    /\ test_data' = Drop(test_data, Labels(val_data))
    /\ pc' = "split_done"
    /\ UNCHANGED <<grover_dataset, train_data, val_data, prepVars, tokVars,
                   trainVars, loopVars>>

SplitNext == SampleTrain \/ DropTrain \/ SampleVal \/ DropVal

SpecSplit == SplitInit /\ [][SplitNext]_vars

(***************************************************************************)
(* Part 5: the fine-tuning loop and the test cell (lines 737 - 844).       *)
(*                                                                         *)
(* A validation loss is a number of the scale 0 .. MaxLoss; only the order *)
(* of the losses enters the code.  The model's weights are identified by   *)
(* the number of train_loop passes that produced them.                     *)
(***************************************************************************)

MaxLoss == 2
LossValues == 0..MaxLoss

nr_epochs == 4

\* if val_loss < best_val_loss
ImprovedOrEqual(new_loss, best) == new_loss <= best
Improved(new_loss, best) == new_loss < best

TrainInit ==
    /\ pc = "baseline"
    /\ best_val_loss = None /\ val_loss = None /\ epoch = None
    /\ weights = 0
    /\ GROVER_finetuned = None
    /\ losses = <<>>
    /\ loaded = None
    /\ PrepIdle /\ TokIdle /\ SplitIdle /\ LoopIdle

\* Line 763: best_val_loss = val_loop(...), then the loop is entered.
Baseline ==
    /\ pc = "baseline"
    /\ \E l \in LossValues :
          /\ best_val_loss' = l
          /\ losses' = Append(losses, l)
    /\ epoch' = 0
    /\ pc' = IF 0 < nr_epochs THEN "train" ELSE "test"
    /\ UNCHANGED <<val_loss, weights, GROVER_finetuned, loaded,
                   prepVars, tokVars, splitVars, loopVars>>

\* Line 766: train_loop updates the weights.
TrainLoop ==
    /\ pc = "train"
    /\ weights' = weights + 1
    /\ pc' = "validate"
    /\ UNCHANGED <<best_val_loss, val_loss, epoch, GROVER_finetuned, losses,
                   loaded, prepVars, tokVars, splitVars, loopVars>>

\* Line 767: val_loss = val_loop(...)
ValLoop ==
    /\ pc = "validate"
    /\ \E l \in LossValues :
          /\ val_loss' = l
          /\ losses' = Append(losses, l)
    /\ pc' = "compare"
    /\ UNCHANGED <<best_val_loss, epoch, weights, GROVER_finetuned, loaded,
                   prepVars, tokVars, splitVars, loopVars>>

\* Lines 769 - 773 and the step of the for loop.
SaveIfImproved ==
    /\ pc = "compare"
    /\ IF Improved(val_loss, best_val_loss)
       THEN /\ best_val_loss' = val_loss
            /\ GROVER_finetuned' = weights
       ELSE UNCHANGED <<best_val_loss, GROVER_finetuned>>
    /\ epoch' = epoch + 1
    /\ pc' = IF epoch + 1 < nr_epochs THEN "train" ELSE "test"
    /\ UNCHANGED <<val_loss, weights, losses, loaded,
                   prepVars, tokVars, splitVars, loopVars>>

\* Line 843: from_pretrained('GROVER_finetuned/') finds the directory.
TestCell ==
    /\ pc = "test"
    /\ GROVER_finetuned # None
    /\ loaded' = GROVER_finetuned
    /\ pc' = "tested"
    /\ UNCHANGED <<best_val_loss, val_loss, epoch, weights, GROVER_finetuned,
                   losses, prepVars, tokVars, splitVars, loopVars>>

\* Line 843: from_pretrained('GROVER_finetuned/') finds no directory.
TestCellFails ==
    /\ pc = "test"
    /\ GROVER_finetuned = None
    /\ pc' = "OSError"
    /\ UNCHANGED <<trainVars, prepVars, tokVars, splitVars, loopVars>>

TrainNext ==
    Baseline \/ TrainLoop \/ ValLoop \/ SaveIfImproved \/ TestCell
    \/ TestCellFails

SpecTrain == TrainInit /\ [][TrainNext]_vars

(***************************************************************************)
(* Part 6: train_loop, val_loop and test_loop (lines 666 - 710, 804 - 823).*)
(*                                                                         *)
(* One call of one of the three functions.  train_loop is followed         *)
(* statement by statement, val_loop and test_loop batch by batch.  Here    *)
(* the weights are identified by the number of optimizer steps that        *)
(* produced them; a forward pass is identified by the batch it ran on and  *)
(* the weights it ran with; the gradient buffer is the list of the losses  *)
(* whose backward pass has been added to it since it was last cleared.     *)
(* A sigmoid output is a probability in hundredths.                        *)
(***************************************************************************)

MaxBatches    == 2
MaxBatchRows  == 1

\* The loaders: every batch is full (MaxBatchRows samples) except the
\* last one, which holds what is left over.
Loaders ==
    {b \in SeqsUpTo(1..MaxBatchRows, MaxBatches) :
        \A k \in DOMAIN b : k < Len(b) => b[k] = MaxBatchRows}

\* Optimizer steps taken before the call, best losses at the call and
\* losses of one validation batch.
PriorSteps  == {0, 1}
BestValues  == {0, MaxLoss}
BatchLosses == {0, MaxLoss}

\* num_labels=2: two outputs per sample.
num_labels == 2

ProbValues == {49, 50, 51}

\* 1 if probs_i[j] > 0.5 else 0
ThresholdAtLeast(p) == IF p >= 50 THEN 1 ELSE 0
Threshold(p) == IF p > 50 THEN 1 ELSE 0

\* The two nested loops over the rows and the entries of probs.
ThresholdBatch(probs) ==
    [i \in DOMAIN probs |-> [j \in DOMAIN probs[i] |-> Threshold(probs[i][j])]]

\* torch.vstack: the batches put under each other.
RECURSIVE Vstack(_)
Vstack(list) ==
    IF list = <<>> THEN <<>> ELSE Head(list) \o Vstack(Tail(list))

\* The outputs a forward pass can give for a batch of n samples.
Outputs(n) == [1..n -> [1..num_labels -> ProbValues]]

\* The situations in which the notebook calls the three functions.
LoopCalls ==
    {[fn |-> "val_loop", weights |-> 0, optimizer |-> 0,
      best |-> None, ckpt |-> None]}
    \cup
    {[fn |-> f, weights |-> w, optimizer |-> w, best |-> b, ckpt |-> c] :
        f \in {"train_loop", "val_loop"}, w \in PriorSteps,
        b \in BestValues, c \in {None} \cup (PriorSteps \ {0})}
    \cup
    {[fn |-> "test_loop", weights |-> c, optimizer |-> c,
      best |-> b, ckpt |-> c] :
        b \in BestValues, c \in PriorSteps \ {0}}

LoopsInit ==
    /\ pc = "call"
    /\ \E call \in LoopCalls :
          /\ call.ckpt # None => call.ckpt <= call.optimizer
          /\ fn = call.fn
          /\ weights = call.weights
          /\ optimizer = call.optimizer
          /\ best_val_loss = call.best
          /\ GROVER_finetuned = call.ckpt
          /\ grad = IF call.optimizer = 0 THEN <<>>
                    ELSE << <<0, call.optimizer - 1>> >>
    /\ batches \in Loaders
    /\ batch_idx = None /\ mode = None
    /\ logits = <<>> /\ loss = <<>> /\ acc_loss = None
    /\ sigmoid = <<>> /\ preds = <<>> /\ returned = <<>>
    /\ val_loss = None /\ epoch = None /\ losses = <<>> /\ loaded = None
    /\ PrepIdle /\ TokIdle /\ SplitIdle

NextBatchOr(after) ==
    IF batch_idx + 1 < Len(batches) THEN pc' = "batch" ELSE pc' = after

\* Line 667 and the head of the for loop.
TrainEnter ==
    /\ pc = "call" /\ fn = "train_loop"
    /\ mode' = "train"
    /\ batch_idx' = 0
    /\ pc' = IF batches = <<>> THEN "returned" ELSE "zero_grad"
    /\ UNCHANGED <<fn, batches, grad, optimizer, logits, loss, acc_loss,
                   sigmoid, preds, returned, prepVars, tokVars, splitVars,
                   trainVars>>

\* Line 671
ZeroGrad ==
    /\ pc = "zero_grad"
    /\ grad' = <<>>
    /\ pc' = "forward"
    /\ UNCHANGED <<fn, batches, batch_idx, mode, optimizer, logits, loss,
                   acc_loss, sigmoid, preds, returned, prepVars, tokVars,
                   splitVars, trainVars>>

\* Line 673
Forward ==
    /\ pc = "forward"
    /\ logits' = <<batch_idx, weights>>
    /\ pc' = "loss"
    /\ UNCHANGED <<fn, batches, batch_idx, mode, grad, optimizer, loss,
                   acc_loss, sigmoid, preds, returned, prepVars, tokVars,
                   splitVars, trainVars>>

\* Line 675
Loss ==
    /\ pc = "loss"
    /\ loss' = logits
    /\ pc' = "backward"
    /\ UNCHANGED <<fn, batches, batch_idx, mode, grad, optimizer, logits,
                   acc_loss, sigmoid, preds, returned, prepVars, tokVars,
                   splitVars, trainVars>>

\* Line 677: the gradient of the loss is added to the buffer.
Backward ==
    /\ pc = "backward"
    /\ grad' = Append(grad, loss)
    /\ pc' = "optimizer_step"
    /\ UNCHANGED <<fn, batches, batch_idx, mode, optimizer, logits, loss,
                   acc_loss, sigmoid, preds, returned, prepVars, tokVars,
                   splitVars, trainVars>>

\* Lines 679 - 683 and the step of the for loop.
OptimizerStep ==
    /\ pc = "optimizer_step"
    /\ weights' = weights + 1
    /\ optimizer' = optimizer + 1
    /\ batch_idx' = batch_idx + 1
    /\ pc' = IF batch_idx + 1 < Len(batches) THEN "zero_grad" ELSE "returned"
    /\ UNCHANGED <<fn, batches, mode, grad, logits, loss, acc_loss, sigmoid,
                   preds, returned, best_val_loss, val_loss, epoch,
                   GROVER_finetuned, losses, loaded, prepVars, tokVars,
                   splitVars>>

\* Lines 686 - 690
ValEnter ==
    /\ pc = "call" /\ fn = "val_loop"
    /\ mode' = "eval"
    /\ acc_loss' = 0
    /\ preds' = <<>>
    /\ batch_idx' = 0
    /\ pc' = IF batches = <<>> THEN "vstack" ELSE "batch"
    /\ UNCHANGED <<fn, batches, grad, optimizer, logits, loss, sigmoid,
                   returned, prepVars, tokVars, splitVars, trainVars>>

\* Lines 691 - 704: one batch of val_loop, under torch.no_grad().
ValBatchWithStep ==
    /\ pc = "batch" /\ fn = "val_loop"
    /\ \E out \in Outputs(batches[batch_idx + 1]), l \in BatchLosses :
          /\ sigmoid' = out
          /\ preds' = Append(preds, ThresholdBatch(out))
          /\ acc_loss' = acc_loss + l
    /\ weights' = weights + 1
    /\ optimizer' = optimizer + 1
    /\ batch_idx' = batch_idx + 1
    /\ NextBatchOr("vstack")
    /\ UNCHANGED <<fn, batches, mode, grad, logits, loss,
                   returned, best_val_loss, val_loss, epoch,
                   GROVER_finetuned, losses, loaded, prepVars, tokVars,
                   splitVars>>
ValBatch ==
    /\ pc = "batch" /\ fn = "val_loop"
    /\ \E out \in Outputs(batches[batch_idx + 1]), l \in BatchLosses :
          /\ sigmoid' = out
          /\ preds' = Append(preds, ThresholdBatch(out))
          /\ acc_loss' = acc_loss + l
    /\ batch_idx' = batch_idx + 1
    /\ NextBatchOr("vstack")
    /\ UNCHANGED <<fn, batches, mode, grad, optimizer, logits, loss,
                   returned, prepVars, tokVars, splitVars, trainVars>>

\* Lines 705 - 710: val_loss / len(val_loader) is returned as the pair
\* (sum of the batch losses, number of batches).
ValReturn ==
    /\ pc = "vstack" /\ fn = "val_loop"
    /\ preds # <<>>
    /\ preds' = Vstack(preds)
    /\ returned' = <<acc_loss, Len(batches)>>
    /\ pc' = "returned"
    /\ UNCHANGED <<fn, batches, batch_idx, mode, grad, optimizer, logits,
                   loss, acc_loss, sigmoid, prepVars, tokVars, splitVars,
                   trainVars>>

\* Lines 805 - 808
TestEnter ==
    /\ pc = "call" /\ fn = "test_loop"
    /\ preds' = <<>>
    /\ mode' = "eval"
    /\ batch_idx' = 0
    /\ pc' = IF batches = <<>> THEN "vstack" ELSE "batch"
    /\ UNCHANGED <<fn, batches, grad, optimizer, logits, loss, acc_loss,
                   sigmoid, returned, prepVars, tokVars, splitVars,
                   trainVars>>

\* Lines 809 - 819: one batch of test_loop, under torch.no_grad().
TestBatch ==
    /\ pc = "batch" /\ fn = "test_loop"
    /\ \E out \in Outputs(batches[batch_idx + 1]) :
          /\ sigmoid' = out
          /\ preds' = Append(preds, ThresholdBatch(out))
    /\ batch_idx' = batch_idx + 1
    /\ NextBatchOr("vstack")
    /\ UNCHANGED <<fn, batches, mode, grad, optimizer, logits, loss,
                   acc_loss, returned, prepVars, tokVars, splitVars,
                   trainVars>>

\* Lines 821 - 823
TestReturn ==
    /\ pc = "vstack" /\ fn = "test_loop"
    /\ preds # <<>>
    /\ preds' = Vstack(preds)
    /\ pc' = "returned"
    /\ UNCHANGED <<fn, batches, batch_idx, mode, grad, optimizer, logits,
                   loss, acc_loss, sigmoid, returned, prepVars, tokVars,
                   splitVars, trainVars>>

\* Lines 705 and 821: torch.vstack of an empty list raises.
VstackFails ==
    /\ pc = "vstack"
    /\ preds = <<>>
    /\ pc' = "RuntimeError"
    /\ UNCHANGED <<loopVars, prepVars, tokVars, splitVars, trainVars>>

LoopsNext ==
    \/ TrainEnter \/ ZeroGrad \/ Forward \/ Loss \/ Backward \/ OptimizerStep
    \/ ValEnter \/ ValBatch \/ ValReturn
    \/ TestEnter \/ TestBatch \/ TestReturn
    \/ VstackFails

SpecLoops == LoopsInit /\ [][LoopsNext]_vars

(***************************************************************************)
(* Properties.                                                             *)
(***************************************************************************)

\* Sum of the lengths of the tokens 0 .. i - 1.
RECURSIVE LengthBefore(_, _)
LengthBefore(toks, i) ==
    IF i = 0 THEN 0 ELSE LengthBefore(toks, i - 1) + TokenLen(toks[i])

TotalLength(toks) == LengthBefore(toks, Len(toks))

Covers(toks, i, p) ==
    LengthBefore(toks, i) <= p /\ p < LengthBefore(toks, i + 1)

\* C1: create_mapper maps every nucleotide offset p below the total length
\* to the one token index i whose span holds p (sum of the lengths before
\* i <= p < sum of the lengths up to i); lengths [3,5,2] give
\* [0,0,0,1,1,1,1,1,2,2].
C1_MapperCoversOffsets ==
    pc = "mapper_done" =>
        /\ \A p \in 0..(TotalLength(tokenized_chr) - 1) :
              /\ p + 1 \in DOMAIN mapper
              /\ mapper[p + 1] \in 0..(Len(tokenized_chr) - 1)
              /\ Covers(tokenized_chr, mapper[p + 1], p)
              /\ \A j \in 0..(Len(tokenized_chr) - 1) :
                    Covers(tokenized_chr, j, p) => j = mapper[p + 1]
        /\ tokenized_chr = <<3, 5, 2>> =>
              mapper = <<0, 0, 0, 1, 1, 1, 1, 1, 2, 2>>

C1_Witness ==
    /\ pc = "mapper_done"
    /\ tokenized_chr = <<3, 5, 2>>
    /\ mapper[4 + 1] = 1

\* C6: the mapper is as long as the sum of the token lengths and its values
\* never decrease, also for the empty list and for zero-length tokens.
C6_MapperLengthAndOrder ==
    pc = "mapper_done" =>
        /\ Len(mapper) = TotalLength(tokenized_chr)
        /\ \A p, q \in DOMAIN mapper : p <= q => mapper[p] <= mapper[q]
        /\ tokenized_chr = <<>> => mapper = <<>>

C6_Witness ==
    /\ pc = "mapper_done"
    /\ Len(tokenized_chr) = 3
    /\ tokenized_chr[2] = 0
    /\ Len(mapper) > 1
    /\ mapper[1] = 0 /\ mapper[Len(mapper)] = 2

\* The rows of the chromosome the loop handled last: their token sequences
\* were cut with the mapper and token list still held in the globals.
LastRows ==
    {k \in DOMAIN tokenized_seqs : data[k].chr = data[Len(tokenized_seqs)].chr}

LoopRunning == pc \in {"tok_loop", "tokenized"}

InsideMapper(k) ==
    /\ 0 <= data[k].start /\ data[k].start <= data[k].end
    /\ data[k].end < Len(mapper)

\* C2: for a motif whose expanded start and end lie inside the mapper, the
\* token sequence is the tokens i with mapper[start] <= i < mapper[end] in
\* chromosome order: the token of the start nucleotide first, the token of
\* the end nucleotide left out.
C2_SliceBetweenMappedBounds ==
    LoopRunning =>
        \A k \in LastRows :
            InsideMapper(k) =>
                LET first == mapper[data[k].start + 1]
                    last  == mapper[data[k].end + 1]
                IN  /\ Len(tokenized_seqs[k]) = last - first
                    /\ \A j \in 1..(last - first) :
                          tokenized_seqs[k][j] = tokenized_chr[first + j]

C2_Witness ==
    /\ LoopRunning
    /\ \E k \in LastRows :
          /\ InsideMapper(k)
          /\ mapper[data[k].start + 1] = 1
          /\ mapper[data[k].end + 1] = 2
          /\ tokenized_seqs[k] = <<tokenized_chr[2]>>
          /\ tokenized_chr[2] # tokenized_chr[3]

\* C5: a motif whose expanded start or end is outside the mapper (below 0
\* or at / after its length) makes the lookup raise, so no token sequence
\* exists for such a motif.
C5_OutOfRangeRaises ==
    LoopRunning =>
        \A k \in LastRows :
            /\ 0 <= data[k].start /\ data[k].start < Len(mapper)
            /\ 0 <= data[k].end /\ data[k].end < Len(mapper)

\* C9: every file the loop opens is chr_N.pkl with N in 1..24, N = K for
\* chrK (K in 1..22), 23 for chrX and 24 for chrY.
C9_FileNumbering ==
    \A i \in DOMAIN opened :
        LET chrom == Unique(ChrColumn(data), <<>>)[i]
        IN  \E n \in 1..24 :
               /\ opened[i] = FileName(DecimalStr(n))
               /\ chrom = chrX => n = 23
               /\ chrom = chrY => n = 24
               /\ \A K \in 1..22 :
                     chrom = <<"c", "h", "r">> \o DecimalStr(K) => n = K

\* C7: class is 0 where column 9 is "." and 1 for every other value, and
\* the table handed on carries that class for each of its rows.
C7_ClassFromPeakColumn ==
    /\ pc # "add_class" =>
          \A i \in DOMAIN annotations :
              annotations[i].class =
                  IF annotations[i].c9 = <<".">> THEN 0 ELSE 1
    /\ pc \notin {"add_class", "select"} =>
          \A k \in DOMAIN data :
              data[k].class =
                  IF annotations[data[k].idx + 1].c9 = <<".">> THEN 0 ELSE 1

C7_Witness ==
    /\ pc = "prepared"
    /\ \E k, l \in DOMAIN data :
          /\ data[k].class = 0 /\ data[l].class = 1
          /\ data[k].chr = data[l].chr

\* C8: after the expansion new_start = c - 500 and new_end = c + 500 with
\* c = start + floor((end - start) / 2), so every window is 1000 wide.
C8_WindowIs1000Wide ==
    pc = "prepared" =>
        \A k \in DOMAIN data :
            LET motif == annotations[data[k].idx + 1]
                c == motif.c3 + ((motif.c4 - motif.c3) \div 2)
            IN  motif.c3 <= motif.c4 =>
                    /\ data[k].start = c - 500
                    /\ data[k].end = c + 500
                    /\ data[k].end - data[k].start = 1000

C8_Witness ==
    /\ pc = "prepared"
    /\ \E k, l \in DOMAIN data :
          /\ annotations[data[k].idx + 1].c4 - annotations[data[k].idx + 1].c3 = 3
          /\ annotations[data[l].idx + 1].c4 = annotations[data[l].idx + 1].c3
          /\ data[k].start = 601 - 500

\* C4: with unique row labels the three parts are pairwise disjoint, every
\* sample is in exactly one of them and their sizes add up to the total.
C4_SplitIsPartition ==
    pc = "split_done" =>
        /\ Labels(train_data) \cap Labels(val_data) = {}
        /\ Labels(train_data) \cap Labels(test_data) = {}
        /\ Labels(val_data) \cap Labels(test_data) = {}
        /\ Range(train_data) \cup Range(val_data) \cup Range(test_data)
              = Range(grover_dataset)
        /\ Len(train_data) + Len(val_data) + Len(test_data)
              = Len(grover_dataset)

C4_Witness ==
    /\ pc = "split_done"
    /\ Cardinality(Labels(grover_dataset)) = Len(grover_dataset)
    /\ Len(grover_dataset) >= 2
    /\ grover_dataset[1].idx > grover_dataset[2].idx
    /\ train_data # <<>> /\ val_data # <<>> /\ test_data # <<>>

\* C3: a checkpoint is written after an epoch exactly when that epoch's
\* validation loss is strictly below every loss measured before it in the
\* run, the baseline included; no other step writes one.
C3_SaveOnlyOnImprovement ==
    [][ /\ pc = "compare" =>
              ((GROVER_finetuned' # GROVER_finetuned) <=>
                  \A i \in 1..(Len(losses) - 1) : val_loss < losses[i])
        /\ pc # "compare" => GROVER_finetuned' = GROVER_finetuned ]_vars

C3_Witness ==
    /\ pc = "test"
    /\ losses = <<2, 1, 1, 0, 2>>
    /\ GROVER_finetuned = 3

\* C10: when the fine-tuning loop has run to completion a checkpoint has
\* been written by that run, whatever the validation losses were.
C10_CheckpointAfterRun ==
    pc \in {"test", "tested", "OSError"} => GROVER_finetuned # None

\* C11: len(train) is 0.8 N rounded, len(val) is half of the rest rounded
\* (a tie goes to the even size), len(test) is what is left, and each size
\* is less than 1 away from its share 0.8 N, 0.1 N, 0.1 N.
C11_SplitSizes ==
    pc = "split_done" =>
        LET N     == Len(grover_dataset)
            train == Len(train_data)
            val   == Len(val_data)
            test  == Len(test_data)
            rest  == N - train
            Dist(a, b) == IF a >= b THEN a - b ELSE b - a
        IN  /\ Dist(10 * train, 8 * N) <= 5
            /\ Dist(2 * val, rest) <= 1
            /\ Dist(2 * val, rest) = 1 => val % 2 = 0
            /\ test = N - train - val
            /\ Dist(10 * train, 8 * N) < 10
            /\ Dist(10 * val, N) < 10
            /\ Dist(10 * test, N) < 10

C11_Witness ==
    /\ pc = "split_done"
    /\ Len(grover_dataset) = 8
    /\ Len(train_data) = 6 /\ Len(val_data) = 1 /\ Len(test_data) = 1

\* The token sequence the motif of row r must get: the slice of its own
\* chromosome's tokens between the mapped window bounds.
SequenceOf(r) ==
    LET toks == tokenized_chromosomes[FileName(ChromNr(r.chr))]
        m    == create_mapper(toks)
    IN  Slice(toks, GetItem(m, r.start), GetItem(m, r.end))

\* C13: every row of grover_dataset pairs the token sequence cut for a
\* motif with the label and class of that same motif, in the row order of
\* the sorted table.
C13_SequenceMatchesLabel ==
    pc = "tokenized" =>
        /\ Len(grover_dataset) = Len(data)
        /\ \A i \in DOMAIN grover_dataset :
              /\ grover_dataset[i].idx = data[i].idx
              /\ grover_dataset[i].class = data[i].class
              /\ grover_dataset[i].X = SequenceOf(data[i])

C13_Witness ==
    /\ pc = "tokenized"
    /\ Len(grover_dataset) = 2
    /\ data[1].chr # data[2].chr
    /\ data[1].class # data[2].class
    /\ grover_dataset[1].X # <<>> /\ grover_dataset[2].X # <<>>
    /\ grover_dataset[1].X # grover_dataset[2].X

RECURSIVE MinOf(_)
MinOf(s) ==
    IF Len(s) = 1 THEN s[1]
    ELSE LET m == MinOf(Tail(s)) IN IF s[1] <= m THEN s[1] ELSE m

\* The loop is between two iterations, or has ended.
IterationEnded == pc \in {"train", "test", "tested", "OSError"}

\* C14: at the end of every iteration best_val_loss is the minimum of the
\* losses measured so far (baseline included), it never increases, and a
\* checkpoint holds the weights as they were after the earliest epoch
\* whose loss equals best_val_loss.
C14_BestLossAndCheckpoint ==
    /\ [](IterationEnded =>
            /\ best_val_loss = MinOf(losses)
            /\ GROVER_finetuned # None =>
                  \E e \in 0..(nr_epochs - 1) :
                      /\ e + 2 \in DOMAIN losses
                      /\ losses[e + 2] = best_val_loss
                      /\ \A d \in 0..(e - 1) : losses[d + 2] # best_val_loss
                      /\ GROVER_finetuned = e + 1)
    /\ [][best_val_loss # None => best_val_loss' <= best_val_loss]_vars

C14_Witness ==
    /\ pc = "test"
    /\ losses = <<2, 1, 1, 2, 1>>
    /\ GROVER_finetuned = 1
    /\ best_val_loss = 1

Evaluating == fn \in {"val_loop", "test_loop"}

\* C12: in val_loop and test_loop every sigmoid output becomes 1 if it is
\* above 0.5 and 0 otherwise (exactly 0.5 becomes 0), and every reported
\* prediction entry is 0 or 1.
C12_ThresholdAtHalf ==
    /\ (Evaluating /\ pc \in {"batch", "vstack"} /\ preds # <<>>) =>
          LET last == preds[Len(preds)]
          IN  /\ DOMAIN last = DOMAIN sigmoid
              /\ \A i \in DOMAIN sigmoid : \A j \in 1..2 :
                    /\ sigmoid[i][j] > 50 => last[i][j] = 1
                    /\ sigmoid[i][j] = 50 => last[i][j] = 0
                    /\ sigmoid[i][j] < 50 => last[i][j] = 0
    /\ (Evaluating /\ pc \in {"batch", "vstack"}) =>
          \A b \in DOMAIN preds : \A i \in DOMAIN preds[b] : \A j \in 1..2 :
              preds[b][i][j] \in {0, 1}
    /\ (Evaluating /\ pc = "returned") =>
          \A i \in DOMAIN preds : \A j \in 1..2 : preds[i][j] \in {0, 1}

C12_Witness ==
    /\ fn = "test_loop" /\ pc = "returned"
    /\ Len(batches) = 2
    /\ sigmoid = << <<50, 51>> >>
    /\ preds = << <<0, 0>>, <<0, 1>> >>

\* C15: val_loop and test_loop change neither the weights, the gradients,
\* the optimizer, best_val_loss nor the checkpoint; the weights change only
\* at optimizer.step() of train_loop, and then the gradient buffer holds
\* exactly the gradient of this batch's loss at the current weights, that
\* is zero_grad, forward, loss and backward ran before it, in that order.
C15_EvaluationChangesNothing ==
    [][ /\ Evaluating =>
              UNCHANGED <<weights, grad, optimizer, best_val_loss,
                          GROVER_finetuned>>
        /\ weights' # weights =>
              /\ fn = "train_loop" /\ pc = "optimizer_step"
              /\ mode = "train"
              /\ grad = << <<batch_idx, weights>> >>
              /\ optimizer' = optimizer + 1 ]_vars

C15_Witness ==
    /\ fn = "val_loop" /\ pc = "returned"
    /\ Len(batches) = 2
    /\ weights = 1 /\ optimizer = 1
    /\ best_val_loss = 0 /\ GROVER_finetuned = 1

====
